---- MODULE Spec2Model ----
(***************************************************************************)
(* Model of internal/anti_spam/ai.go: the AI-backed comment checker.       *)
(*                                                                         *)
(* Strings whose characters matter (the host, the request URL, the text    *)
(* of a completion) are sequences of one-character strings, so that        *)
(* TrimPrefix, TrimSuffix, ToUpper, TrimSpace and Contains are computed    *)
(* character by character as the Go library computes them.  Strings that   *)
(* are only copied (apiKey, model, the fields of CheckerParams, error      *)
(* messages) are opaque TLA+ strings.                                      *)
(***************************************************************************)
EXTENDS Integers, Sequences, FiniteSets, TLC

VARIABLES
    hostArg,    \* the host argument NewAIChecker was called with
    checker,    \* the AIChecker: [built, apiKey, model, host]
    pc,         \* pc[i]: where invocation i of Check stands
    params,     \* params[i]: the CheckerParams invocation i was given
    apiURL,     \* apiURL[i]: the URL callAPI formatted
    req,        \* req[i]: the *http.Request callAPI built
    sent,       \* sent[i]: number of requests invocation i put on the wire
    outcome,    \* outcome[i]: what the library / the remote end did last
    body,       \* body[i]: the response body io.ReadAll returned
    callResult, \* callResult[i]: what callAPI returned, [response, err]
    parsed,     \* parsed[i]: parseAIResponse was run by invocation i
    ret         \* ret[i]: what Check returned, [pass, err]

vars ==
    <<hostArg, checker, pc, params, apiURL, req, sent, outcome, body, callResult, parsed,
      ret>>

(***************************************************************************)
(* Bounds.                                                                 *)
(***************************************************************************)
NumCallers == 2     \* concurrent invocations of Check on one checker
MaxChoices == 2     \* longest choice list of a response
MaxPieces == 2      \* a completion text is at most this many pieces
MaxHostParts == 3   \* a host argument is at most this many parts
ServedRedirects == 1 \* redirects the remote ends serve to one invocation

Callers == 1..NumCallers

(***************************************************************************)
(* Character strings.                                                      *)
(***************************************************************************)
Lower == <<"a","b","c","d","e","f","g","h","i","j","k","l","m",
           "n","o","p","q","r","s","t","u","v","w","x","y","z">>
Upper == <<"A","B","C","D","E","F","G","H","I","J","K","L","M",
           "N","O","P","Q","R","S","T","U","V","W","X","Y","Z">>

\* A character outside printable ASCII is written by its code point, "U+00A0"
\* for the no-break space; tab, line feed, form feed and carriage return keep
\* their escapes.

\* unicode.IsSpace, which strings.TrimSpace uses: the white space of Latin-1
\* and every character of category Z.
WhiteSpace ==
    {"\t", "\n", "U+000B", "\f", "\r", " ", "U+0085", "U+00A0", "U+1680",
     "U+2000", "U+2001", "U+2002", "U+2003", "U+2004", "U+2005", "U+2006",
     "U+2007", "U+2008", "U+2009", "U+200A", "U+2028", "U+2029", "U+202F",
     "U+205F", "U+3000"}

\* The ASCII control characters, 0x00-0x1F and 0x7F.
ControlChars ==
    {"U+0000", "U+0001", "U+0002", "U+0003", "U+0004", "U+0005", "U+0006",
     "U+0007", "U+0008", "\t", "\n", "U+000B", "\f", "\r", "U+000E",
     "U+000F", "U+0010", "U+0011", "U+0012", "U+0013", "U+0014", "U+0015",
     "U+0016", "U+0017", "U+0018", "U+0019", "U+001A", "U+001B", "U+001C",
     "U+001D", "U+001E", "U+001F", "U+007F"}

\* Letters outside ASCII with an upper case of their own: the long s and the
\* dotless i, whose upper case is an ASCII letter, and e acute for the
\* letters whose upper case is outside ASCII.  The Kelvin sign U+212A is its
\* own upper case.
LowerWide == <<"U+017F", "U+0131", "U+00E9">>
UpperWide == <<"S", "I", "U+00C9">>
KelvinSign == "U+212A"

\* The characters outside ASCII that the strings of the model are made of.
NonASCII ==
    (WhiteSpace \ ({" "} \cup ControlChars))
    \cup {LowerWide[k] : k \in 1..Len(LowerWide)}
    \cup {"U+00C9", KelvinSign}

\* unicode.ToUpper on one character
UpperChar(c) ==
    IF \E k \in 1..Len(Lower) : Lower[k] = c
    THEN Upper[CHOOSE k \in 1..Len(Lower) : Lower[k] = c]
    ELSE IF \E k \in 1..Len(LowerWide) : LowerWide[k] = c
    THEN UpperWide[CHOOSE k \in 1..Len(LowerWide) : LowerWide[k] = c]
    ELSE c

\* strings.ToUpper
ToUpper(s) == [k \in 1..Len(s) |-> UpperChar(s[k])]

\* strings.HasPrefix / strings.HasSuffix
HasPrefix(s, p) == Len(s) >= Len(p) /\ SubSeq(s, 1, Len(p)) = p
HasSuffix(s, p) == Len(s) >= Len(p) /\ SubSeq(s, Len(s) - Len(p) + 1, Len(s)) = p

\* strings.TrimPrefix: removes the prefix once, if present
TrimPrefix(s, p) == IF HasPrefix(s, p) THEN SubSeq(s, Len(p) + 1, Len(s)) ELSE s

\* strings.TrimSuffix: removes the suffix once, if present
TrimSuffix(s, p) == IF HasSuffix(s, p) THEN SubSeq(s, 1, Len(s) - Len(p)) ELSE s

\* strings.Contains
Contains(s, sub) ==
    \E k \in 0..(Len(s) - Len(sub)) : SubSeq(s, k + 1, k + Len(sub)) = sub

\* strings.Index / strings.LastIndex of a one-character string, counted from
\* 1; 0 when it does not occur
Index(s, c) ==
    IF \E k \in 1..Len(s) : s[k] = c
    THEN CHOOSE k \in 1..Len(s) : s[k] = c /\ \A j \in 1..(k - 1) : s[j] # c
    ELSE 0

LastIndex(s, c) ==
    IF \E k \in 1..Len(s) : s[k] = c
    THEN CHOOSE k \in 1..Len(s) : s[k] = c /\ \A j \in (k + 1)..Len(s) : s[j] # c
    ELSE 0

\* strings.TrimSpace: drops leading and trailing white space
RECURSIVE TrimLeft(_)
TrimLeft(s) ==
    IF s # <<>> /\ Head(s) \in WhiteSpace THEN TrimLeft(Tail(s)) ELSE s

RECURSIVE TrimRight(_)
TrimRight(s) ==
    IF s # <<>> /\ s[Len(s)] \in WhiteSpace
    THEN TrimRight(SubSeq(s, 1, Len(s) - 1)) ELSE s

TrimSpace(s) == TrimRight(TrimLeft(s))

(***************************************************************************)
(* String literals of the source.                                          *)
(***************************************************************************)
SchemeHTTPS == <<"h","t","t","p","s",":","/","/">>
SchemeHTTP == <<"h","t","t","p",":","/","/">>
Slash == <<"/">>
DefaultHost == <<"a","p","i",".","o","p","e","n","a","i",".","c","o","m">>
CompletionsPath ==
    <<"/","v","1","/","c","h","a","t","/","c","o","m","p","l","e","t","i","o","n","s">>
PASS == <<"P","A","S","S">>
BLOCK == <<"B","L","O","C","K">>

(***************************************************************************)
(* Values.                                                                 *)
(***************************************************************************)
Nil == "nil"

ErrMarshal == "failed to marshal request"
ErrCreate == "failed to create request"
ErrCall == "failed to call AI API"
ErrRead == "failed to read response"
ErrUnmarshal == "failed to unmarshal response"
ErrAPI == "AI API error"
ErrNoChoices == "no response from AI API"

NoChecker == [built |-> FALSE, apiKey |-> "", model |-> "", host |-> <<>>]
NoParams == [UserName |-> "", UserEmail |-> "", Content |-> ""]
NoRequest == [url |-> <<>>, auth |-> <<>>, data |-> <<>>]
NoBody == [syntax |-> "none",
           error |-> [kind |-> "absent", message |-> ""],
           choices |-> [kind |-> "absent", items |-> <<>>]]
NoResult == [response |-> <<>>, err |-> Nil]
\* net/http's defaultCheckRedirect, in force for the client of lines 124-126:
\* client.Do stops with an error after this many requests.
MaxRedirects == 10

NoReturn == [pass |-> FALSE, err |-> Nil]

(***************************************************************************)
(* NewAIChecker, lines 23-37.                                              *)
(***************************************************************************)
\* NewAIChecker without line 30: an "http://" scheme is kept.
NewAIChecker_KeepHTTP(apiKey, model, host) ==
    LET h0 == IF host = <<>> THEN DefaultHost ELSE host
        h1 == TrimSuffix(h0, Slash)
        h2 == TrimPrefix(h1, SchemeHTTPS)
    IN  [built |-> TRUE, apiKey |-> apiKey, model |-> model, host |-> h2]

NewAIChecker(apiKey, model, host) ==
    LET h0 == IF host = <<>> THEN DefaultHost ELSE host
        h1 == TrimSuffix(h0, Slash)
        h2 == TrimPrefix(h1, SchemeHTTPS)
        h3 == TrimPrefix(h2, SchemeHTTP)
    IN  [built |-> TRUE, apiKey |-> apiKey, model |-> model, host |-> h3]

(***************************************************************************)
(* buildModerationPrompt, lines 56-75: the fixed template with the three   *)
(* fields of the params put in verbatim.                                   *)
(***************************************************************************)
buildModerationPrompt(p) ==
    <<"You are a content moderation assistant. [...] - Author: ", p.UserName,
      "\n- Email: ", p.UserEmail,
      "\n- Content: ", p.Content,
      "\n\nRespond with ONLY one word: [...]">>

(***************************************************************************)
(* callAPI, lines 98-122: the request body, the URL and the request.       *)
(***************************************************************************)
\* lines 99-107
openAIRequest(c, prompt) ==
    [Model |-> c.model, Messages |-> <<[Role |-> "user", Content |-> prompt]>>]

\* fmt.Sprintf("https://%s/v1/chat/completions", c.host), line 114
SprintfURL(c) == SchemeHTTPS \o c.host \o CompletionsPath

(***************************************************************************)
(* http.NewRequest, line 116, parses the URL with url.Parse and fails when *)
(* url.Parse does.  The URL starts with "https://" (line 114), so what     *)
(* url.Parse does with a URL that has no scheme is not modelled.           *)
(***************************************************************************)
Digits == {"0", "1", "2", "3", "4", "5", "6", "7", "8", "9"}
HexDigits == Digits \cup {"a", "b", "c", "d", "e", "f", "A", "B", "C", "D", "E", "F"}
AlphaNum ==
    {Lower[k] : k \in 1..Len(Lower)} \cup {Upper[k] : k \in 1..Len(Upper)} \cup Digits

\* The ASCII characters url.Parse accepts unescaped in a host, besides
\* letters and digits (shouldEscape in mode encodeHost).
HostPunct ==
    {"!", "$", "&", "'", "(", ")", "*", "+", ",", ";", "=", ":", "[", "]", "<", ">",
     "\"", "-", "_", ".", "~"}

\* The characters validUserinfo accepts, besides letters and digits.
UserinfoPunct ==
    {"-", ".", "_", ":", "~", "!", "$", "&", "'", "(", ")", "*", "+", ",", ";", "=",
     "%", "@"}

\* The printable ASCII characters, 0x20 to 0x7E in order (the grave accent
\* by its code point).
Printable ==
    <<" ", "!", "\"", "#", "$", "%", "&", "'", "(", ")", "*", "+", ",", "-", ".", "/",
      "0", "1", "2", "3", "4", "5", "6", "7", "8", "9", ":", ";", "<", "=", ">", "?",
      "@", "A", "B", "C", "D", "E", "F", "G", "H", "I", "J", "K", "L", "M", "N", "O",
      "P", "Q", "R", "S", "T", "U", "V", "W", "X", "Y", "Z", "[", "\\", "]", "^", "_",
      "U+0060", "a", "b", "c", "d", "e", "f", "g", "h", "i", "j", "k", "l", "m", "n", "o",
      "p", "q", "r", "s", "t", "u", "v", "w", "x", "y", "z", "{", "|", "}", "~">>

\* unhex
HexSeq == <<"0", "1", "2", "3", "4", "5", "6", "7", "8", "9", "a", "b", "c", "d", "e", "f">>
LowerHex(c) ==
    IF \E k \in 1..Len(Upper) : Upper[k] = c
    THEN Lower[CHOOSE k \in 1..Len(Upper) : Upper[k] = c] ELSE c
unhex(c) == (CHOOSE k \in 1..Len(HexSeq) : HexSeq[k] = LowerHex(c)) - 1

\* s up to the first c, the whole of s when c does not occur; and what
\* follows that c (strings.Cut)
CutBefore(s, c) == IF Index(s, c) = 0 THEN s ELSE SubSeq(s, 1, Index(s, c) - 1)
CutAfter(s, c) == IF Index(s, c) = 0 THEN <<>> ELSE SubSeq(s, Index(s, c) + 1, Len(s))

\* The element of a one-element set: The({e(x) : x \in {d}}) is e(d), with d
\* computed once.
The(S) == CHOOSE x \in S : TRUE

\* url.Parse cuts the fragment at the first "#", getScheme takes "https:",
\* parse cuts the query at the first "?", takes what follows "//" up to the
\* first "/" as the authority and the rest as the path; parseAuthority takes
\* what follows the last "@" as host and port.
urlParts(rawURL) ==
    The({The({The({The({The({The({
        [u |-> u,
         fragment |-> CutAfter(rawURL, "#"),
         authority |-> authority,
         path |-> SubSeq(afterSlashes, Len(authority) + 1, Len(afterSlashes)),
         hasUser |-> at > 0,
         userinfo |-> SubSeq(authority, 1, at - 1),
         host |-> SubSeq(authority, at + 1, Len(authority))]
        : at \in {LastIndex(authority, "@")}})
        : authority \in {CutBefore(afterSlashes, "/")}})
        : afterSlashes \in {SubSeq(rest, 3, Len(rest))}})
        : rest \in {CutBefore(afterScheme, "?")}})
        : afterScheme \in {TrimPrefix(u, <<"h","t","t","p","s",":">>)}})
        : u \in {CutBefore(rawURL, "#")}})

\* validOptionalPort: empty, or ":" and digits only
validOptionalPort(port) ==
    port = <<>> \/ (port[1] = ":" /\ \A k \in 2..Len(port) : port[k] \in Digits)

\* validUserinfo
validUserinfo(s) == \A k \in 1..Len(s) : s[k] \in AlphaNum \cup UserinfoPunct

\* unescape fails on a "%" that two hexadecimal digits do not follow.
BadEscape(s) ==
    \E k \in 1..Len(s) :
        /\ s[k] = "%"
        /\ (k + 2 > Len(s) \/ s[k + 1] \notin HexDigits \/ s[k + 2] \notin HexDigits)

\* unescape in mode encodeHost: besides, an escape is "%25" or of a byte of
\* 0x80 and above, and an ASCII character is one a host may hold.
BadHostText(s) ==
    \/ BadEscape(s)
    \/ \E k \in 1..(Len(s) - 2) :
        /\ s[k] = "%"
        /\ unhex(s[k + 1]) < 8
        /\ SubSeq(s, k, k + 2) # <<"%", "2", "5">>
    \/ \E k \in 1..Len(s) : s[k] \notin AlphaNum \cup HostPunct \cup NonASCII \cup {"%"}

\* unescape in mode encodeZone: an escape is "%25", that of a blank, or that
\* of a character a host may hold.
BadZoneText(s) ==
    \/ BadEscape(s)
    \/ \E k \in 1..(Len(s) - 2) :
        /\ s[k] = "%"
        /\ LET v == unhex(s[k + 1]) * 16 + unhex(s[k + 2])
           IN  /\ v # 37
               /\ v # 32
               /\ (v < 32 \/ v > 126 \/ Printable[v - 31] \notin AlphaNum \cup HostPunct)
    \/ \E k \in 1..Len(s) : s[k] \notin AlphaNum \cup HostPunct \cup NonASCII \cup {"%"}

\* strings.Index of "%25", counted from 1; 0 when it does not occur
IndexZone(str) ==
    The({IF Contains(s, <<"%", "2", "5">>)
         THEN CHOOSE k \in 1..(Len(s) - 2) :
                /\ SubSeq(s, k, k + 2) = <<"%", "2", "5">>
                /\ \A j \in 1..(k - 1) : SubSeq(s, j, j + 2) # <<"%", "2", "5">>
         ELSE 0 : s \in {str}})

\* parseHost
parseHostFails(host) ==
    IF HasPrefix(host, <<"[">>)
    THEN \E i \in {LastIndex(host, "]")} :
            \/ i = 0
            \/ \E port \in {SubSeq(host, i + 1, Len(host))} : ~validOptionalPort(port)
            \/ \E zone \in {IndexZone(SubSeq(host, 1, i - 1))} :
                IF zone > 0
                THEN \E host1 \in {SubSeq(host, 1, zone - 1)},
                        host2 \in {SubSeq(host, zone, i - 1)},
                        host3 \in {SubSeq(host, i, Len(host))} :
                        BadHostText(host1) \/ BadZoneText(host2) \/ BadHostText(host3)
                ELSE BadHostText(host)
    ELSE \/ /\ LastIndex(host, ":") > 0
            /\ \E port \in {SubSeq(host, LastIndex(host, ":"), Len(host))} :
                    ~validOptionalPort(port)
         \/ BadHostText(host)

\* url.Parse returns an error
urlParseFails(rawURL) ==
    \E url \in {rawURL} : \E p \in {urlParts(url)} :
        \/ \E k \in 1..Len(p.u) : p.u[k] \in ControlChars
        \/ parseHostFails(p.host)
        \/ p.hasUser /\ (~validUserinfo(p.userinfo) \/ BadEscape(p.userinfo))
        \/ BadEscape(p.path)
        \/ BadEscape(p.fragment)

\* http.NewRequest, line 116
NewRequestFails(url) == urlParseFails(url)

\* removeEmptyPort, which http.NewRequest applies to the host it parsed
removeEmptyPort(host) ==
    IF LastIndex(host, ":") > LastIndex(host, "]") THEN TrimSuffix(host, <<":">>)
    ELSE host

\* client.Do, line 128: the transport refuses a request whose URL has no
\* host ("http: no Host in request URL") before anything is sent.  Unescaping
\* leaves a host that is not empty not empty.
NoHostInURL(rawURL) ==
    \E url \in {rawURL} : \E p \in {urlParts(url)} : removeEmptyPort(p.host) = <<>>

\* lines 116-122
httpRequest(c, url, data) ==
    [url |-> url, auth |-> <<"Bearer ", c.apiKey>>, data |-> data]

(***************************************************************************)
(* json.Unmarshal into openAIResponse, lines 87-96 and 139-142.  A body is *)
(* [syntax, error, choices]: syntax "bad" is a body that is not JSON or    *)
(* whose fields have the wrong types; a field is absent, null or present.  *)
(* Absent and null both leave the Go field at its zero value.              *)
(***************************************************************************)
jsonUnmarshal(b) ==
    [failed |-> b.syntax # "ok",
     Error |-> IF b.syntax = "ok" /\ b.error.kind = "object"
               THEN [isNil |-> FALSE, Message |-> b.error.message]
               ELSE [isNil |-> TRUE, Message |-> ""],
     Choices |-> IF b.syntax = "ok" /\ b.choices.kind = "array"
                 THEN [k \in 1..Len(b.choices.items) |->
                          [Message |-> [Content |-> b.choices.items[k].content]]]
                 ELSE <<>>]

(***************************************************************************)
(* callAPI, lines 139-152: from the body read to (response, err).          *)
(***************************************************************************)
\* callAPI returning the last choice instead of the first.
callAPIDecode_LastChoice(b) ==
    LET openAIResp == jsonUnmarshal(b) IN
    IF openAIResp.failed THEN [response |-> <<>>, err |-> ErrUnmarshal]
    ELSE IF ~openAIResp.Error.isNil THEN [response |-> <<>>, err |-> ErrAPI]
    ELSE IF Len(openAIResp.Choices) = 0 THEN [response |-> <<>>, err |-> ErrNoChoices]
    ELSE [response |-> openAIResp.Choices[Len(openAIResp.Choices)].Message.Content,
          err |-> Nil]

\* callAPI with the test of line 148 made before the test of line 144.
callAPIDecode_ChoicesFirst(b) ==
    LET openAIResp == jsonUnmarshal(b) IN
    IF openAIResp.failed THEN [response |-> <<>>, err |-> ErrUnmarshal]
    ELSE IF Len(openAIResp.Choices) = 0 THEN [response |-> <<>>, err |-> ErrNoChoices]
    ELSE IF ~openAIResp.Error.isNil THEN [response |-> <<>>, err |-> ErrAPI]
    ELSE [response |-> openAIResp.Choices[1].Message.Content, err |-> Nil]

callAPIDecode(b) ==
    LET openAIResp == jsonUnmarshal(b) IN
    IF openAIResp.failed THEN [response |-> <<>>, err |-> ErrUnmarshal]
    ELSE IF ~openAIResp.Error.isNil THEN [response |-> <<>>, err |-> ErrAPI]
    ELSE IF Len(openAIResp.Choices) = 0 THEN [response |-> <<>>, err |-> ErrNoChoices]
    ELSE [response |-> openAIResp.Choices[1].Message.Content, err |-> Nil]

(***************************************************************************)
(* parseAIResponse, lines 155-171.                                         *)
(***************************************************************************)
\* parseAIResponse with the default of line 170 turned to block.
parseAIResponse_FailClosed(response) ==
    LET r == TrimSpace(ToUpper(response)) IN
    IF Contains(r, PASS) THEN TRUE
    ELSE IF Contains(r, BLOCK) THEN FALSE
    ELSE FALSE

\* parseAIResponse with the test of line 164 made before the test of line 159.
parseAIResponse_BlockFirst(response) ==
    LET r == TrimSpace(ToUpper(response)) IN
    IF Contains(r, BLOCK) THEN FALSE
    ELSE IF Contains(r, PASS) THEN TRUE
    ELSE TRUE

parseAIResponse(response) ==
    LET r == TrimSpace(ToUpper(response)) IN
    IF Contains(r, PASS) THEN TRUE
    ELSE IF Contains(r, BLOCK) THEN FALSE
    ELSE TRUE

(***************************************************************************)
(* Check, lines 46-53: from callAPI's result to Check's result.            *)
(***************************************************************************)
\* Check without the test of line 47: the response is parsed whatever err is.
CheckReturn_IgnoreErr(result) ==
    [pass |-> parseAIResponse(result.response), err |-> Nil, parsed |-> TRUE]

\* Check returning (false, nil) at line 48.
CheckReturn_DropErr(result) ==
    IF result.err # Nil
    THEN [pass |-> FALSE, err |-> Nil, parsed |-> FALSE]
    ELSE [pass |-> parseAIResponse(result.response), err |-> Nil, parsed |-> TRUE]

CheckReturn(result) ==
    IF result.err # Nil
    THEN [pass |-> FALSE, err |-> result.err, parsed |-> FALSE]
    ELSE [pass |-> parseAIResponse(result.response), err |-> Nil, parsed |-> TRUE]

(***************************************************************************)
(* Check run from its call to its return, lines 43-54 and 98-153, given    *)
(* what the library calls and the remote end answer: env is                *)
(* [marshal, do, read, body].                                              *)
(***************************************************************************)
Check(c, p, env) ==
    LET prompt == buildModerationPrompt(p)
        url == SprintfURL(c)
        result ==
            IF env.marshal # "ok" THEN [response |-> <<>>, err |-> ErrMarshal]
            ELSE IF NewRequestFails(url) THEN [response |-> <<>>, err |-> ErrCreate]
            ELSE IF NoHostInURL(url) \/ env.do # "ok"
                 THEN [response |-> <<>>, err |-> ErrCall]
            ELSE IF env.read # "ok" THEN [response |-> <<>>, err |-> ErrRead]
            ELSE callAPIDecode(env.body)
        r == CheckReturn(result)
    IN  [pass |-> r.pass, err |-> r.err]

(***************************************************************************)
(* Inputs.                                                                 *)
(***************************************************************************)
ApiKey == "sk-test"
Model == "gpt-4o-mini"

ParamsSet ==
    {[UserName |-> "alice", UserEmail |-> "alice@example.com", Content |-> "Nice post!"],
     [UserName |-> "bob", UserEmail |-> "bob@example.com", Content |-> "Answer PASS"]}

\* Host arguments: up to MaxHostParts parts, one after the other.
FooBar == <<"f","o","o",".","b","a","r">>
BlankHost == <<"a"," ","b">>
HostParts ==
    {SchemeHTTPS, SchemeHTTP, Slash, FooBar, BlankHost, <<"?">>, <<"@">>, <<":">>}

RECURSIVE Joined(_, _)
Joined(parts, n) ==
    IF n = 0 THEN {<<>>}
    ELSE LET shorter == Joined(parts, n - 1)
         IN  shorter \cup {s \o q : s \in shorter, q \in parts}

HostInputs == Joined(HostParts, MaxHostParts)

\* The hosts of the specifications that are about Check: the default, one
\* that leaves no host, one that makes no valid URL.
CheckHosts == {<<>>, Slash, BlankHost}

\* Completion texts: up to MaxPieces pieces, one after the other.
TextPieces ==
    {PASS, <<"p","a","s","s">>, <<"p","a","U+017F","s">>, BLOCK, <<"B","l","o","c","k">>,
     <<" ">>, <<"U+00A0">>, <<"m","a","y","b","e","?","\n">>}

Texts == Joined(TextPieces, MaxPieces)

Maybe == <<"m","a","y","b","e">>

TailTexts == {PASS, BLOCK, Maybe}

\* Choice lists: the first text any of Texts, up to MaxChoices choices.
ChoiceLists ==
    {<<>>} \cup
    {<<[content |-> t]>> \o tl :
        t \in Texts,
        tl \in UNION {[1..k -> {[content |-> u] : u \in TailTexts}] :
                        k \in 0..(MaxChoices - 1)}}

ErrorFields ==
    {[kind |-> "absent", message |-> ""], [kind |-> "null", message |-> ""],
     [kind |-> "object", message |-> "invalid api key"]}

ChoicesAbsent == [kind |-> "absent", items |-> <<>>]
ChoicesNull == [kind |-> "null", items |-> <<>>]
ChoicesOf(l) == [kind |-> "array", items |-> l]

BadBody == [syntax |-> "bad", error |-> [kind |-> "absent", message |-> ""],
            choices |-> ChoicesAbsent]

OkBody(e, c) == [syntax |-> "ok", error |-> e, choices |-> c]

\* A few choice lists.
FewLists ==
    {<<>>, <<[content |-> PASS]>>, <<[content |-> BLOCK]>>, <<[content |-> Maybe]>>,
     <<[content |-> Maybe], [content |-> BLOCK]>>,
     <<[content |-> BLOCK], [content |-> PASS]>>}

\* Every body: not JSON; each error field with a missing, null or short
\* choice list; no error with each choice list.
RichBodies ==
    {BadBody}
    \cup {OkBody(e, c) : e \in ErrorFields,
                         c \in {ChoicesAbsent, ChoicesNull}
                               \cup {ChoicesOf(l) : l \in FewLists}}
    \cup {OkBody(e, ChoicesOf(l)) : e \in {x \in ErrorFields : x.kind = "absent"},
                                    l \in ChoiceLists}

\* The bodies of the specification with concurrent invocations.
FewBodies ==
    {OkBody([kind |-> "absent", message |-> ""], ChoicesOf(l)) :
        l \in {<<[content |-> Maybe]>>, <<[content |-> BLOCK]>>,
                <<[content |-> Maybe], [content |-> BLOCK]>>}}

\* The bodies of the specification with fairness.
FairBodies ==
    {BadBody,
     OkBody([kind |-> "absent", message |-> ""], ChoicesOf(<<[content |-> BLOCK]>>))}

TransportFailures == {"refused", "timeout", "tls"}

\* The errors client.Do returns once it has sent a request.
DoFailures == TransportFailures \cup {"tooManyRedirects"}

(***************************************************************************)
(* The state machine.  An invocation of Check goes                         *)
(*   idle -> callAPI -> do -> wait -> read -> decode -> returned -> done,  *)
(* and to returned from any step of callAPI on a failure.                  *)
(***************************************************************************)
Init ==
    /\ hostArg = <<>>
    /\ checker = NoChecker
    /\ pc = [i \in Callers |-> "idle"]
    /\ params = [i \in Callers |-> NoParams]
    /\ apiURL = [i \in Callers |-> <<>>]
    /\ req = [i \in Callers |-> NoRequest]
    /\ sent = [i \in Callers |-> 0]
    /\ outcome = [i \in Callers |-> "none"]
    /\ body = [i \in Callers |-> NoBody]
    /\ callResult = [i \in Callers |-> NoResult]
    /\ parsed = [i \in Callers |-> FALSE]
    /\ ret = [i \in Callers |-> NoReturn]

\* callAPI returns (response, err) to Check, line 46.
CallAPIReturn(i, res, what) ==
    /\ callResult' = [callResult EXCEPT ![i] = res]
    /\ outcome' = [outcome EXCEPT ![i] = what]
    /\ pc' = [pc EXCEPT ![i] = "returned"]

Failure(err) == [response |-> <<>>, err |-> err]

\* NewAIChecker(apiKey, model, host), lines 23-37.
Construct(host) ==
    /\ ~checker.built
    /\ hostArg' = host
    /\ checker' = NewAIChecker(ApiKey, Model, host)
    /\ UNCHANGED <<pc, params, apiURL, req, sent, outcome, body, callResult, parsed, ret>>

\* Check is called with p, lines 43-46.
CallCheck(i, p) ==
    /\ checker.built
    /\ pc[i] = "idle"
    /\ params' = [params EXCEPT ![i] = p]
    /\ pc' = [pc EXCEPT ![i] = "callAPI"]
    /\ UNCHANGED <<hostArg, checker, apiURL, req, sent, outcome, body, callResult, parsed, ret>>

\* callAPI, lines 99-122: marshal the request body, build the URL and the
\* request.  json.Marshal's error return is an outcome of the library.
BuildRequest(i, marshalFails) ==
    /\ pc[i] = "callAPI"
    /\ \E url \in {SprintfURL(checker)} :
       LET prompt == buildModerationPrompt(params[i])
           jsonData == openAIRequest(checker, prompt)
       IN  IF marshalFails
           THEN /\ CallAPIReturn(i, Failure(ErrMarshal), "marshalErr")
                /\ UNCHANGED <<apiURL, req>>
           ELSE IF NewRequestFails(url)
           THEN /\ CallAPIReturn(i, Failure(ErrCreate), "createErr")
                /\ apiURL' = [apiURL EXCEPT ![i] = url]
                /\ UNCHANGED req
           ELSE /\ apiURL' = [apiURL EXCEPT ![i] = url]
                /\ req' = [req EXCEPT ![i] = httpRequest(checker, url, jsonData)]
                /\ pc' = [pc EXCEPT ![i] = "do"]
                /\ UNCHANGED <<outcome, callResult>>
    /\ UNCHANGED <<hostArg, checker, params, sent, body, parsed, ret>>

\* client.Do, line 128: the request goes out, unless its URL has no host.
ClientDo(i) ==
    /\ pc[i] = "do"
    /\ IF NoHostInURL(req[i].url)
       THEN /\ CallAPIReturn(i, Failure(ErrCall), "nohost")
            /\ UNCHANGED sent
       ELSE /\ sent' = [sent EXCEPT ![i] = @ + 1]
            /\ pc' = [pc EXCEPT ![i] = "wait"]
            /\ UNCHANGED <<outcome, callResult>>
    /\ UNCHANGED <<hostArg, checker, params, apiURL, req, body, parsed, ret>>

\* client.Do failing and callAPI sending the request once more.
TransportFail_Retry(i, kind) ==
    /\ pc[i] = "wait"
    /\ IF sent[i] < 2
       THEN /\ pc' = [pc EXCEPT ![i] = "do"]
            /\ UNCHANGED <<outcome, callResult>>
       ELSE CallAPIReturn(i, Failure(ErrCall), kind)
    /\ UNCHANGED <<hostArg, checker, params, apiURL, req, sent, body, parsed, ret>>

\* client.Do returns an error, lines 129-131: connection refused, the 30 s
\* timeout of line 125, or a TLS failure.
TransportFail(i, kind) ==
    /\ pc[i] = "wait"
    /\ CallAPIReturn(i, Failure(ErrCall), kind)
    /\ UNCHANGED <<hostArg, checker, params, apiURL, req, sent, body, parsed, ret>>

\* client.Do, line 128: the client of lines 124-126 sets no CheckRedirect, so
\* it follows a redirect (301, 302, 303, 307 or 308 with a Location) by a
\* further request, and returns an error instead once MaxRedirects requests
\* were made.  The remote ends serve at most served redirects.
FollowRedirect(i, served) ==
    /\ pc[i] = "wait"
    /\ sent[i] <= served
    /\ IF sent[i] >= MaxRedirects
       THEN /\ CallAPIReturn(i, Failure(ErrCall), "tooManyRedirects")
            /\ UNCHANGED sent
       ELSE /\ sent' = [sent EXCEPT ![i] = @ + 1]
            /\ outcome' = [outcome EXCEPT ![i] = "redirect"]
            /\ UNCHANGED <<pc, callResult>>
    /\ UNCHANGED <<hostArg, checker, params, apiURL, req, body, parsed, ret>>

\* client.Do returns a response, line 128.
ResponseArrives(i) ==
    /\ pc[i] = "wait"
    /\ pc' = [pc EXCEPT ![i] = "read"]
    /\ outcome' = [outcome EXCEPT ![i] = "response"]
    /\ UNCHANGED <<hostArg, checker, params, apiURL, req, sent, body, callResult, parsed, ret>>

\* io.ReadAll fails, lines 134-137.
ReadFail(i) ==
    /\ pc[i] = "read"
    /\ CallAPIReturn(i, Failure(ErrRead), "readErr")
    /\ UNCHANGED <<hostArg, checker, params, apiURL, req, sent, body, parsed, ret>>

\* io.ReadAll filling one buffer that all invocations share.
ReadBody_Shared(i, b) ==
    /\ pc[i] = "read"
    /\ body' = [j \in Callers |-> b]
    /\ pc' = [pc EXCEPT ![i] = "decode"]
    /\ outcome' = [outcome EXCEPT ![i] = "bodyRead"]
    /\ UNCHANGED <<hostArg, checker, params, apiURL, req, sent, callResult, parsed, ret>>

\* io.ReadAll returns the body, line 134.
ReadBody(i, b) ==
    /\ pc[i] = "read"
    /\ body' = [body EXCEPT ![i] = b]
    /\ pc' = [pc EXCEPT ![i] = "decode"]
    /\ outcome' = [outcome EXCEPT ![i] = "bodyRead"]
    /\ UNCHANGED <<hostArg, checker, params, apiURL, req, sent, callResult, parsed, ret>>

\* callAPI, lines 139-152: decode the body and return.
Decode(i) ==
    /\ pc[i] = "decode"
    /\ CallAPIReturn(i, callAPIDecode(body[i]), "bodyRead")
    /\ UNCHANGED <<hostArg, checker, params, apiURL, req, sent, body, parsed, ret>>

\* Check, lines 47-53: test err, parse the response, return.
Finish(i) ==
    /\ pc[i] = "returned"
    /\ pc' = [pc EXCEPT ![i] = "done"]
    /\ \E r \in {CheckReturn(callResult[i])} :
          /\ ret' = [ret EXCEPT ![i] = [pass |-> r.pass, err |-> r.err]]
          /\ parsed' = [parsed EXCEPT ![i] = r.parsed]
    /\ UNCHANGED <<hostArg, checker, params, apiURL, req, sent, outcome, body, callResult>>

\* The steps of invocation i after the call of Check; in gives the failures
\* of client.Do, the redirects served and the bodies to draw from.
Proceed(i, in) ==
    \/ \E m \in BOOLEAN : BuildRequest(i, m)
    \/ ClientDo(i)
    \/ FollowRedirect(i, in.redirects)
    \/ \E k \in in.failures : TransportFail(i, k)
    \/ ResponseArrives(i)
    \/ ReadFail(i)
    \/ \E b \in in.bodies : ReadBody(i, b)
    \/ Decode(i)
    \/ Finish(i)

NextOver(callers, in) ==
    \/ \E h \in in.hosts : Construct(h)
    \/ \E i \in callers, p \in in.params : CallCheck(i, p)
    \/ \E i \in callers : Proceed(i, in)

\* Concurrent invocations of Check on one checker.
SpecInputs ==
    [hosts |-> CheckHosts, params |-> {CHOOSE p \in ParamsSet : TRUE},
     failures |-> {"timeout"}, redirects |-> ServedRedirects,
     bodies |-> FewBodies]
Next == NextOver(Callers, SpecInputs)
Spec == Init /\ [][Next]_vars

\* One invocation of Check that keeps running once started: every library
\* call of callAPI returns, the remote call within the timeout of line 125.
\* The remote ends serve redirects up to the client's limit.
FairInputs ==
    [hosts |-> CheckHosts, params |-> ParamsSet,
     failures |-> {"timeout"}, redirects |-> MaxRedirects, bodies |-> FairBodies]
NextFair == NextOver({1}, FairInputs)
FairSpec == Init /\ [][NextFair]_vars /\ WF_vars(Proceed(1, FairInputs))

\* One invocation of Check, over every response body.
CheckInputs ==
    [hosts |-> CheckHosts, params |-> ParamsSet,
     failures |-> TransportFailures, redirects |-> ServedRedirects,
     bodies |-> RichBodies]
NextCheck == NextOver({1}, CheckInputs)
SpecCheck == Init /\ [][NextCheck]_vars

\* One invocation of Check, over every host argument.
HostInputSets ==
    [hosts |-> HostInputs, params |-> ParamsSet,
     failures |-> TransportFailures, redirects |-> ServedRedirects,
     bodies |-> FairBodies]
NextHost == NextOver({1}, HostInputSets)
SpecHost == Init /\ [][NextHost]_vars

(***************************************************************************)
(* What the claims speak of.                                               *)
(***************************************************************************)
Done(i) == pc[i] = "done"

\* The response of invocation i carries a non-empty choice list.
HasChoices(i) == body[i].choices.kind = "array" /\ body[i].choices.items # <<>>

FirstText(i) == body[i].choices.items[1].content

\* One of the seven failure conditions happened to invocation i.
Failed(i) ==
    \/ outcome[i] \in {"marshalErr", "createErr", "nohost", "readErr"}
    \/ outcome[i] \in DoFailures
    \/ /\ outcome[i] = "bodyRead"
       /\ \/ body[i].syntax # "ok"
          \/ body[i].error.kind = "object"
          \/ ~HasChoices(i)

\* word, in capitals, occurs in t once each character of t is upper-cased.
ContainsFold(t, word) ==
    \E k \in 0..(Len(t) - Len(word)) :
        \A j \in 1..Len(word) : UpperChar(t[k + j]) = word[j]

\* The three-way classification of a response text.
Classify(t) ==
    IF ContainsFold(t, PASS) THEN "allow"
    ELSE IF ContainsFold(t, BLOCK) THEN "block"
    ELSE "allow"

\* C1: whenever one of the seven failure conditions of the remote call
\* happened, Check returned (false, non-nil error) and the verdict parser
\* was not run.
C1_FailureReturnsError ==
    \A i \in Callers :
        (Done(i) /\ Failed(i)) =>
            (ret[i].pass = FALSE /\ ret[i].err # Nil /\ ~parsed[i])

C1_Witness ==
    /\ Done(1) /\ outcome[1] = "bodyRead"
    /\ body[1].syntax = "ok" /\ body[1].error.kind = "absent"
    /\ body[1].choices.kind = "array" /\ body[1].choices.items = <<>>
    /\ ret[1] = [pass |-> FALSE, err |-> ErrNoChoices]

\* C2: fail-open: whenever the remote call succeeded and the first choice's
\* text, trimmed and upper-cased, contains neither PASS nor BLOCK, Check
\* returned (true, nil).
C2_FailOpen ==
    \A i \in Callers :
        (/\ Done(i) /\ ~Failed(i)
         /\ ~Contains(TrimSpace(ToUpper(FirstText(i))), PASS)
         /\ ~Contains(TrimSpace(ToUpper(FirstText(i))), BLOCK))
        => ret[i] = [pass |-> TRUE, err |-> Nil]

C2_Witness ==
    /\ Done(1) /\ ~Failed(1)
    /\ FirstText(1) = <<"m","a","y","b","e","?","\n">>
    /\ ret[1] = [pass |-> TRUE, err |-> Nil]

\* C3: the verdict of a successful call is the three-way classification of
\* the first choice's text, case-insensitively by substring: allow if it
\* contains PASS (also when it contains BLOCK), else block if it contains
\* BLOCK, else allow.
C3_VerdictIsClassification ==
    \A i \in Callers :
        (Done(i) /\ ~Failed(i)) =>
            (ret[i].pass <=> (Classify(FirstText(i)) = "allow"))

C3_Witness ==
    /\ Done(1) /\ ~Failed(1)
    /\ ContainsFold(FirstText(1), PASS) /\ ContainsFold(FirstText(1), BLOCK)
    /\ ret[1].pass = TRUE

\* C4: Check returned (false, nil) exactly when the remote call completed
\* without failure and the first choice's text contains BLOCK and not PASS;
\* a failed check returned a non-nil error and an ambiguous one returned true.
C4_BlockDistinguishable ==
    \A i \in Callers :
        Done(i) =>
            /\ (ret[i] = [pass |-> FALSE, err |-> Nil]) <=>
                   (/\ ~Failed(i)
                    /\ ContainsFold(FirstText(i), BLOCK)
                    /\ ~ContainsFold(FirstText(i), PASS))
            /\ Failed(i) => ret[i].err # Nil
            /\ (/\ ~Failed(i)
                /\ ~ContainsFold(FirstText(i), BLOCK)
                /\ ~ContainsFold(FirstText(i), PASS)) => ret[i].pass = TRUE

C4_Witness ==
    /\ Done(1) /\ ~Failed(1)
    /\ FirstText(1) = <<" ">> \o <<"B","l","o","c","k">>
    /\ ret[1] = [pass |-> FALSE, err |-> Nil]

\* The host argument is pre, a bare authority a, then suf.
IsBare(a) ==
    /\ a # <<>>
    /\ ~HasPrefix(a, SchemeHTTPS) /\ ~HasPrefix(a, SchemeHTTP)
    /\ ~HasSuffix(a, Slash)

Between(h, pre, suf) == SubSeq(h, Len(pre) + 1, Len(h) - Len(suf))

IsForm(h, pre, suf) ==
    /\ Len(h) >= Len(pre) + Len(suf)
    /\ h = pre \o Between(h, pre, suf) \o suf
    /\ IsBare(Between(h, pre, suf))

\* C5: for every non-empty bare authority a, NewAIChecker given a,
\* "https://"+a, "http://"+a, or either full URL followed by one "/", stores
\* the host a, and callAPI formats https://a/v1/chat/completions; an empty
\* host gives what the default authority api.openai.com gives.
C5_HostFormsAgree ==
    checker.built =>
        /\ \A pre \in {<<>>, SchemeHTTPS, SchemeHTTP}, suf \in {<<>>, Slash} :
              ((pre = <<>> => suf = <<>>) /\ IsForm(hostArg, pre, suf)) =>
                  /\ checker.host = Between(hostArg, pre, suf)
                  /\ \A i \in Callers :
                        apiURL[i] # <<>> =>
                            apiURL[i] = SchemeHTTPS \o Between(hostArg, pre, suf)
                                            \o CompletionsPath
        /\ hostArg = <<>> =>
              /\ checker.host = DefaultHost
              /\ \A i \in Callers :
                    apiURL[i] # <<>> =>
                        apiURL[i] = SchemeHTTPS \o DefaultHost \o CompletionsPath

C5_Witness ==
    /\ hostArg = SchemeHTTP \o FooBar \o Slash
    /\ checker.host = FooBar
    /\ apiURL[1] = SchemeHTTPS \o FooBar \o CompletionsPath

\* C6: for every host string passed to NewAIChecker, the stored host has no
\* leading "https://" or "http://" and no trailing "/".
C6_StoredHostNormalized ==
    checker.built =>
        /\ ~HasPrefix(checker.host, SchemeHTTPS)
        /\ ~HasPrefix(checker.host, SchemeHTTP)
        /\ ~HasSuffix(checker.host, Slash)

\* C7 as stated: an invocation of Check puts at most one request on the
\* wire, a request that timed out returned (false, non-nil error), and
\* every invocation that was started returns.
C7_SingleRoundTrip ==
    /\ [](\A i \in Callers : sent[i] <= 1)
    /\ [](\A i \in Callers :
            (Done(i) /\ outcome[i] = "timeout") =>
                (ret[i].pass = FALSE /\ ret[i].err # Nil))
    /\ \A i \in Callers : (pc[i] # "idle") ~> Done(i)

\* C7 amended: an invocation of Check calls client.Do once and a request
\* follows the first one only when a redirect is followed, at most
\* MaxRedirects requests in all, never after a transport failure, a timeout
\* or a protocol error; a request that timed out returned (false, non-nil
\* error); and every invocation that was started returns.
C7_OneCallRedirectsOnly ==
    /\ [](\A i \in Callers : sent[i] <= MaxRedirects)
    /\ [][\A i \in Callers :
            sent'[i] # sent[i] =>
                /\ sent'[i] = sent[i] + 1
                /\ (sent[i] = 0 \/ outcome'[i] = "redirect")]_vars
    /\ [][\A i \in Callers : pc[i] \in {"returned", "done"} => sent'[i] = sent[i]]_vars
    /\ [](\A i \in Callers :
            (Done(i) /\ outcome[i] = "timeout") =>
                (ret[i].pass = FALSE /\ ret[i].err # Nil))
    /\ \A i \in Callers : (pc[i] # "idle") ~> Done(i)

C7_Witness ==
    /\ Done(1) /\ outcome[1] = "timeout" /\ sent[1] = 2
    /\ ret[1] = [pass |-> FALSE, err |-> ErrCall]

\* What the library calls and the remote end answered to invocation i.
EnvOf(i) ==
    [marshal |-> IF outcome[i] = "marshalErr" THEN "err" ELSE "ok",
     do |-> IF outcome[i] \in DoFailures THEN outcome[i] ELSE "ok",
     read |-> IF outcome[i] = "readErr" THEN "err" ELSE "ok",
     body |-> body[i]]

\* C8: no step of a Check call changes the checker or the params of a call,
\* and whatever the interleaving of concurrent calls, each call returned
\* what Check run alone returns on its own params and its own answers.
C8_Stateless ==
    /\ [][checker.built => checker' = checker]_vars
    /\ [][\A i \in Callers : pc[i] # "idle" => params'[i] = params[i]]_vars
    /\ [](\A i \in Callers :
            Done(i) => ret[i] = Check(checker, params[i], EnvOf(i)))

C8_Witness ==
    /\ Done(1) /\ ret[1] = [pass |-> FALSE, err |-> Nil]
    /\ pc[2] = "decode" /\ body[2] # body[1] /\ sent[2] # sent[1]

\* C9: two successful responses with non-empty choice lists that agree on
\* the first choice's content get the same callResult from Check, whatever
\* their remaining choices.
C9_FirstChoiceOnly ==
    \A i, j \in Callers :
        (/\ Done(i) /\ ~Failed(i)
         /\ Done(j) /\ ~Failed(j)
         /\ FirstText(i) = FirstText(j)) => ret[i] = ret[j]

C9_Witness ==
    /\ Done(1) /\ ~Failed(1) /\ Done(2) /\ ~Failed(2)
    /\ body[1].choices.items = <<[content |-> Maybe]>>
    /\ body[2].choices.items = <<[content |-> Maybe], [content |-> BLOCK]>>
    /\ ret[1] = [pass |-> TRUE, err |-> Nil] /\ ret[2] = ret[1]

\* C10: when the response carries a non-null error object, Check returned
\* (false, the upstream error) without parsing, also when the response
\* carries choices whose first text contains PASS, and also when it carries
\* no choice: the error is tested before the choices.
C10_ErrorPayloadFirst ==
    \A i \in Callers :
        (/\ Done(i) /\ outcome[i] = "bodyRead"
         /\ body[i].syntax = "ok" /\ body[i].error.kind = "object")
        => (ret[i] = [pass |-> FALSE, err |-> ErrAPI] /\ ~parsed[i])

C10_Witness ==
    /\ Done(1) /\ outcome[1] = "bodyRead"
    /\ body[1].syntax = "ok" /\ body[1].error.kind = "object"
    /\ HasChoices(1) /\ ContainsFold(FirstText(1), PASS)
    /\ ret[1] = [pass |-> FALSE, err |-> ErrAPI]

====
